---- MODULE Spec2Model ----
(***************************************************************************)
(* A model of packages/node-fetch/src/fetch.ts: the fetchPonyfill          *)
(* dispatcher, its data:/file: handlers, and the node-libcurl (curly)      *)
(* transport it drives, together with the cancellation signal the          *)
(* dispatcher observes.                                                    *)
(*                                                                         *)
(* Strings whose characters matter (a data: URI's pathname, a header       *)
(* value) are sequences of one-character strings.                          *)
(***************************************************************************)
EXTENDS Integers, Sequences, FiniteSets, TLC

(***************************************************************************)
(* Bounds of the model.                                                    *)
(***************************************************************************)
\* longest payload part (after the type descriptor) of a data: pathname
MaxPayload == 4
\* longest content-length header value, in characters
MaxValueLen == 2
\* most header blocks the transport returns for one request
MaxBlocks == 2
\* most keys in one header block
MaxKeys == 2

(***************************************************************************)
(* Strings.                                                                *)
(***************************************************************************)
\* sequences over S of length at most n
SeqsUpTo(S, n) == UNION {[1..k -> S] : k \in 0..n}

\* String.prototype.endsWith
EndsWith(s, suffix) ==
    /\ Len(s) >= Len(suffix)
    /\ SubSeq(s, Len(s) - Len(suffix) + 1, Len(s)) = suffix

\* s.slice(0, -n)
DropLast(s, n) == SubSeq(s, 1, Len(s) - n)

\* index of the first "," of s, 0 when there is none
FirstComma(s) ==
    IF \E i \in 1..Len(s) : s[i] = ","
    THEN CHOOSE i \in 1..Len(s) : s[i] = "," /\ \A j \in 1..(i - 1) : s[j] # ","
    ELSE 0

\* s.split(','): always at least one part; "" splits to [""]
RECURSIVE Split(_)
Split(s) ==
    IF FirstComma(s) = 0
    THEN <<s>>
    ELSE <<SubSeq(s, 1, FirstComma(s) - 1)>> \o Split(SubSeq(s, FirstComma(s) + 1, Len(s)))

\* parts.join(','); [] joins to ""
RECURSIVE Join(_)
Join(parts) ==
    IF Len(parts) = 0 THEN <<>>
    ELSE IF Len(parts) = 1 THEN parts[1]
    ELSE parts[1] \o <<",">> \o Join(Tail(parts))

HexDigits == {"1", "4"}
HexVal(c) == IF c = "1" THEN 1 ELSE 4

\* the character of an escaped byte; every byte two digits of HexDigits
\* spell is below 0x80, so each is one character by itself
Chr(byte) ==
    CASE byte = 65 -> "A"
      [] byte = 68 -> "D"
      [] byte = 17 -> "<DC1>"
      [] byte = 20 -> "<DC4>"

\* whether decodeURIComponent(s) throws URIError: a "%" that is not followed
\* by two hexadecimal digits
RECURSIVE Malformed(_)
Malformed(s) ==
    IF Len(s) = 0 THEN FALSE
    ELSE IF Head(s) = "%"
         THEN IF Len(s) >= 3 /\ s[2] \in HexDigits /\ s[3] \in HexDigits
              THEN Malformed(SubSeq(s, 4, Len(s)))
              ELSE TRUE
         ELSE Malformed(Tail(s))

\* decodeURIComponent(s) for a string it does not throw on
RECURSIVE DecodeURIComponent(_)
DecodeURIComponent(s) ==
    IF Len(s) = 0 THEN <<>>
    ELSE IF Head(s) = "%" /\ Len(s) >= 3
         THEN <<Chr(16 * HexVal(s[2]) + HexVal(s[3]))>>
                  \o DecodeURIComponent(SubSeq(s, 4, Len(s)))
         ELSE <<Head(s)>> \o DecodeURIComponent(Tail(s))

(***************************************************************************)
(* The data: handler.                                                      *)
(***************************************************************************)
BASE64_SUFFIX == <<";", "b", "a", "s", "e", "6", "4">>
TextPlain == <<"t", "e", "x", "t", "/", "p", "l", "a", "i", "n">>

\* `const [mimeType = 'text/plain', ...datas] = url.pathname.split(',')`:
\* the default stands in only for an undefined first element
MimeTypeOf(pathname) ==
    IF Len(Split(pathname)) >= 1 THEN Split(pathname)[1] ELSE TextPlain

DatasOf(pathname) == Tail(Split(pathname))

\* a thrown error, as the rejection of the dispatch future
Failure(name) == [kind |-> "failure", error |-> name]

\* getResponseForDataUri: the Response it constructs, or the URIError that
\* decodeURIComponent throws
GetResponseForDataUri(pathname) ==
    LET mimeType == MimeTypeOf(pathname)
        joined == Join(DatasOf(pathname))
    IN  IF Malformed(joined)
        THEN Failure("URIError")
        ELSE LET data == DecodeURIComponent(joined)
             IN  IF EndsWith(mimeType, BASE64_SUFFIX)
                 THEN [kind |-> "response", status |-> 200, statusText |-> "OK",
                       headers |-> <<>>,
                       body |-> [kind |-> "blob",
                                 type |-> DropLast(mimeType, Len(BASE64_SUFFIX)),
                                 base64url |-> data]]
                 ELSE [kind |-> "response", status |-> 200, statusText |-> "OK",
                       headers |-> <<<<"content-type", mimeType>>>>,
                       body |-> [kind |-> "text", text |-> data]]

\* getResponseForFile: fileURLToPath throws on an encoded "/" in the path;
\* createReadStream never throws for a missing file, the stream errors later
FileURLToPathThrows(pathname) ==
    \E i \in 1..(Len(pathname) - 2) :
        pathname[i] = "%" /\ pathname[i + 1] = "2" /\ pathname[i + 2] \in {"F", "f"}

GetResponseForFile(url) ==
    IF FileURLToPathThrows(url.pathname)
    THEN Failure("TypeError")
    ELSE [kind |-> "response", body |-> [kind |-> "file", path |-> url.pathname]]

(***************************************************************************)
(* Requests.                                                               *)
(***************************************************************************)
Dispatches == {1, 2}
Signals == {1, 2}
\* handles the transport may pass as `this` to one transfer's progress callback
HandlesPerTransfer == 2
NoHandle == 0
HandleOf(d, k) == (d - 1) * HandlesPerTransfer + k
Handles(d) == {HandleOf(d, k) : k \in 1..HandlesPerTransfer}

\* new PonyfillURL(fetchRequest.url, 'http://localhost').protocol: a URL
\* without a scheme resolves against the base
Protocol(url) == IF url.scheme = "" THEN "http:" ELSE url.scheme \o ":"

\* new PonyfillRequest(info, init): the canonical Request of a string or URL
NewRequest(info) == [info EXCEPT !.form = "request"]

\* a variant of line 47 that misses the URL
NeedsRequestStringOnly(info) == info.form = "string"

\* lines 47-52: a string or a URL is made a Request, and fetchPonyfill
\* re-entered with it
NeedsRequest(info) == info.form = "string" \/ info.form = "url"
FetchRequestOf(info) == IF NeedsRequest(info) THEN NewRequest(info) ELSE info

\* lines 47-50, as the recursion it is: each entry of fetchPonyfill with a
\* string or a URL constructs a Request and enters again with it
RECURSIVE FetchCalls(_)
FetchCalls(info) ==
    IF NeedsRequest(info)
    THEN LET inner == FetchCalls(NewRequest(info))
         IN  [form |-> info.form, entries |-> inner.entries + 1,
              requests |-> inner.requests + 1]
    ELSE [form |-> info.form, entries |-> 1, requests |-> 0]

(***************************************************************************)
(* Header serialization and the transport's options.                       *)
(***************************************************************************)
Digits == {"0", "1"}
DigitVal(c) == IF c = "0" THEN 0 ELSE 1

RECURSIVE Decimal(_)
Decimal(s) == IF Len(s) = 0 THEN 0
              ELSE 10 * Decimal(SubSeq(s, 1, Len(s) - 1)) + DigitVal(s[Len(s)])

\* Number(value): "" is 0, a run of digits its decimal value, else NaN
ToNumber(value) ==
    IF \A i \in 1..Len(value) : value[i] \in Digits
    THEN [nan |-> FALSE, value |-> Decimal(value)]
    ELSE [nan |-> TRUE, value |-> 0]

\* `let size: number | undefined`
Undefined == [defined |-> FALSE, nan |-> FALSE, value |-> 0]
Defined(n) == [defined |-> TRUE, nan |-> n.nan, value |-> n.value]

\* defaultHeadersSerializer: every header becomes a "key: value" line, and
\* the callback runs on the value of each key that is exactly content-length
RECURSIVE SizeAfter(_, _)
SizeAfter(headers, size) ==
    IF Len(headers) = 0 THEN size
    ELSE SizeAfter(Tail(headers),
                   IF Head(headers)[1] = "content-length"
                   THEN Defined(ToNumber(Head(headers)[2]))
                   ELSE size)

HeaderLines(headers) ==
    [i \in 1..Len(headers) |-> <<headers[i][1], ": ", headers[i][2]>>]

\* lines 66-72
NodeReadable(body) ==
    CASE body = "null" -> "null"
      [] body = "stream" -> "stream"
      [] body = "iterable" -> "Readable.from"

\* a variant of lines 108-110 without the `size != null` guard
WithInFileSizeAlways(options, size) ==
    options @@ [inFileSize |-> [nan |-> size.nan, value |-> size.value]]

\* lines 108-110
WithInFileSize(options, size) ==
    IF size.defined
    THEN options @@ [inFileSize |-> [nan |-> size.nan, value |-> size.value]]
    ELSE options

\* lines 74-110: the options handed to curly
CurlyOptions(req) ==
    WithInFileSize(
        [curlyStreamResponse |-> TRUE,
         curlyResponseBodyParser |-> FALSE,
         upload |-> NodeReadable(req.body) # "null",
         transferEncoding |-> FALSE,
         httpTransferDecoding |-> TRUE,
         followLocation |-> (req.redirect = "follow"),
         maxRedirs |-> 20,
         acceptEncoding |-> <<>>,
         curlyStreamUpload |-> NodeReadable(req.body),
         httpHeader |-> HeaderLines(req.headers),
         customRequest |-> req.method],
        SizeAfter(req.headers, Undefined))

NoOptions == [none |-> TRUE]

(***************************************************************************)
(* The response of the transport.                                          *)
(***************************************************************************)
\* a variant of line 125 that misses the lower-case key
RedirectForbiddenCapitalOnly(key, redirect) ==
    key = "Location" /\ redirect = "error"

\* line 125
RedirectForbidden(key, redirect) ==
    key = "location" \/ (key = "Location" /\ redirect = "error")

\* PonyfillHeaders.append: key and value are appended as they are
HeadersAppend(headers, key, value) == Append(headers, <<key, value>>)

\* the keys of all blocks in the order forEach and for-in visit them
RECURSIVE Entries(_)
Entries(blocks) ==
    IF Len(blocks) = 0 THEN <<>> ELSE Head(blocks) \o Entries(Tail(blocks))

\* lines 122-132: the loop stops at the first key it throws on
RECURSIVE AssembleHeaders(_, _, _)
AssembleHeaders(entries, redirect, responseHeaders) ==
    IF Len(entries) = 0
    THEN [threw |-> FALSE, headers |-> responseHeaders]
    ELSE LET key == Head(entries)[1]
             value == Head(entries)[2]
             rest == Tail(entries)
         IN  IF RedirectForbidden(key, redirect)
             THEN [threw |-> TRUE, headers |-> responseHeaders]
             ELSE LET appended == IF key # "result"
                                  THEN HeadersAppend(responseHeaders, key, value)
                                  ELSE responseHeaders
                  IN  AssembleHeaders(rest, redirect, appended)

\* a variant of lines 122-145 that constructs the Response before it looks
\* at the headers
AfterCurlyResponseFirst(req, res) ==
    LET a == AssembleHeaders(Entries(res.headers), req.redirect, <<>>)
    IN  IF a.threw
        THEN [result |-> Failure("redirects are not allowed"),
              constructed |-> 1, listening |-> TRUE]
        ELSE [result |-> [kind |-> "response", status |-> res.statusCode,
                          headers |-> a.headers, body |-> [kind |-> "stream"],
                          url |-> req.url],
              constructed |-> 1, listening |-> TRUE]

\* a variant of lines 122-145 that returns the Response after the first
\* header block
AfterCurlyFirstBlock(req, res) ==
    LET a == AssembleHeaders(Entries(SubSeq(res.headers, 1, 1)), req.redirect, <<>>)
    IN  IF a.threw
        THEN [result |-> Failure("redirects are not allowed"),
              constructed |-> 0, listening |-> FALSE]
        ELSE [result |-> [kind |-> "response", status |-> res.statusCode,
                          headers |-> a.headers, body |-> [kind |-> "stream"],
                          url |-> req.url],
              constructed |-> 1, listening |-> TRUE]

\* lines 122-145, once curly has resolved: what the dispatch settles to,
\* how many Responses were constructed, whether the error listener is on
AfterCurly(req, res) ==
    LET a == AssembleHeaders(Entries(res.headers), req.redirect, <<>>)
    IN  IF a.threw
        THEN [result |-> Failure("redirects are not allowed"),
              constructed |-> 0, listening |-> FALSE]
        ELSE [result |-> [kind |-> "response", status |-> res.statusCode,
                          headers |-> a.headers, body |-> [kind |-> "stream"],
                          url |-> req.url],
              constructed |-> 1, listening |-> TRUE]

CURLE_ABORTED_BY_CALLBACK == 42
AbortedByCallback == [isCurlError |-> TRUE, code |-> CURLE_ABORTED_BY_CALLBACK]

\* a variant of lines 133-139 that rethrows every error
OnStreamErrorRethrows(err) == [kind |-> "thrown", err |-> err]

\* a variant of lines 133-139 that goes by the code alone
OnStreamErrorByCode(err) ==
    IF err.code = CURLE_ABORTED_BY_CALLBACK
    THEN [kind |-> "suppressed", err |-> err]
    ELSE [kind |-> "thrown", err |-> err]

\* lines 133-139: the 'error' listener of curlyResult.data
OnStreamError(err) ==
    IF err.isCurlError /\ err.code = CURLE_ABORTED_BY_CALLBACK
    THEN [kind |-> "suppressed", err |-> err]
    ELSE [kind |-> "thrown", err |-> err]

\* a variant of line 92 that always tells the transport to continue
ProgressReturnContinue(signalAborted) == 0

\* a variant of lines 89-91 without the test of line 89
CaptureHandleAlways(slot, this) == this

\* a variant of line 92 that always asks the transport to abort
ProgressReturnAbort(signalAborted) == 1

\* lines 88-93: what curlyProgressCallback leaves in the slot, and returns
CaptureHandle(slot, this) == IF slot = NoHandle THEN this ELSE slot
ProgressReturn(signalAborted) == IF signalAborted THEN 1 ELSE 0

(***************************************************************************)
(* State.                                                                  *)
(***************************************************************************)
VARIABLES
    pc,                 \* d -> "idle", "import", "curly", "done": where fetchPonyfill is
    fetchRequest,       \* d -> the Request the dispatch runs on
    easyNativeBinding,  \* d -> the captured transport handle, or NoHandle
    curlyOptions,       \* d -> the options handed to curly
    curlyResult,        \* d -> the promise curly returned: pending, resolved, rejected
    result,             \* d -> the dispatch future: pending, a Response, a failure
    constructed,        \* d -> how many PonyfillResponse objects the dispatch constructed
    listening,          \* d -> whether the 'error' listener is on curlyResult.data
    bodyError,          \* d -> what the 'error' listener did with the stream's error
    engineUse,          \* d -> what the dispatch asked of node-libcurl
    transfer,           \* d -> the transport's transfer: "none", "connecting",
                        \*      "streaming", "aborting", "aborted", "ended", "errored"
    aborted,            \* s -> signal.aborted
    onabort,            \* s -> the dispatch whose closure is signal.onabort, or 0
    paused,             \* the pause(CurlPause.Recv) requests made so far
    calls,              \* d -> the form of the caller's input, and how often
                        \*      fetchPonyfill was entered and a Request constructed
    lastOp              \* what the last callback run returned or did

vars == <<pc, fetchRequest, easyNativeBinding, curlyOptions, curlyResult, result,
          constructed, listening, bodyError, engineUse, transfer, aborted, onabort,
          paused, calls, lastOp>>

dispatchVars == <<pc, fetchRequest, easyNativeBinding, curlyOptions, curlyResult,
                  result, constructed, listening, bodyError, engineUse, transfer,
                  calls>>

Pending == [kind |-> "pending"]
NoRequest == [form |-> "none"]
NoOp == [op |-> "none"]
NoCalls == [form |-> "none", entries |-> 0, requests |-> 0]
InFlight == {"connecting", "streaming"}

Init ==
    /\ pc = [d \in Dispatches |-> "idle"]
    /\ fetchRequest = [d \in Dispatches |-> NoRequest]
    /\ easyNativeBinding = [d \in Dispatches |-> NoHandle]
    /\ curlyOptions = [d \in Dispatches |-> NoOptions]
    /\ curlyResult = [d \in Dispatches |-> Pending]
    /\ result = [d \in Dispatches |-> Pending]
    /\ constructed = [d \in Dispatches |-> 0]
    /\ listening = [d \in Dispatches |-> FALSE]
    /\ bodyError = [d \in Dispatches |-> [kind |-> "none"]]
    /\ engineUse = [d \in Dispatches |-> {}]
    /\ transfer = [d \in Dispatches |-> "none"]
    /\ aborted = [s \in Signals |-> FALSE]
    /\ onabort = [s \in Signals |-> 0]
    /\ paused = {}
    /\ calls = [d \in Dispatches |-> NoCalls]
    /\ lastOp = NoOp

(***************************************************************************)
(* fetchPonyfill.                                                          *)
(***************************************************************************)
\* a variant of lines 54-64 without the file: branch
TransportDataOnly(req) ==
    IF Protocol(req.url) = "data:" THEN "data" ELSE "network"

\* lines 54-64: the transport a Request is routed to
Transport(req) ==
    IF Protocol(req.url) = "data:" THEN "data"
    ELSE IF Protocol(req.url) = "file:" THEN "file"
    ELSE "network"

\* a variant of lines 56-64 that rejects when the signal is aborted
LocalResultUnlessAborted(req) ==
    IF aborted[req.signal]
    THEN Failure("AbortError")
    ELSE IF Transport(req) = "data"
    THEN GetResponseForDataUri(req.url.pathname)
    ELSE GetResponseForFile(req.url)

\* lines 56-64: the Response, or the failure, of a data: or file: dispatch
LocalResult(req) ==
    IF Transport(req) = "data"
    THEN GetResponseForDataUri(req.url.pathname)
    ELSE GetResponseForFile(req.url)

\* how many Responses a settled result stands for
Responses(r) == IF r.kind = "response" THEN 1 ELSE 0

\* lines 43-112: the call, up to the first suspension or the return, for
\* an input of `infos`
Fetch(d, infos) ==
    /\ pc[d] = "idle"
    /\ \E info \in infos :
        /\ fetchRequest' = [fetchRequest EXCEPT ![d] = FetchRequestOf(info)]
        /\ calls' = [calls EXCEPT ![d] = FetchCalls(info)]
        /\ IF Transport(FetchRequestOf(info)) = "network"
           THEN /\ curlyOptions' = [curlyOptions EXCEPT
                                       ![d] = CurlyOptions(FetchRequestOf(info))]
                /\ engineUse' = [engineUse EXCEPT ![d] = @ \cup {"import"}]
                /\ pc' = [pc EXCEPT ![d] = "import"]
                /\ UNCHANGED <<result, constructed>>
           ELSE /\ result' = [result EXCEPT ![d] = LocalResult(FetchRequestOf(info))]
                /\ constructed' = [constructed EXCEPT
                                      ![d] = Responses(LocalResult(FetchRequestOf(info)))]
                /\ pc' = [pc EXCEPT ![d] = "done"]
                /\ UNCHANGED <<curlyOptions, engineUse>>
    /\ lastOp' = NoOp
    /\ UNCHANGED <<easyNativeBinding, curlyResult, listening, bodyError, transfer,
                   aborted, onabort, paused>>

\* line 112 rejecting: the module could not be loaded
ImportFails(d) ==
    /\ pc[d] = "import"
    /\ pc' = [pc EXCEPT ![d] = "done"]
    /\ result' = [result EXCEPT ![d] = Failure("import")]
    /\ lastOp' = NoOp
    /\ UNCHANGED <<calls, fetchRequest, easyNativeBinding, curlyOptions, curlyResult,
                   constructed, listening, bodyError, engineUse, transfer, aborted,
                   onabort, paused>>

\* a variant of line 114 that keeps a callback already registered
RegisterOnabortIfFree(registered, d) == IF registered = 0 THEN d ELSE registered

\* line 114: `signal.onabort = ...` replaces whatever was registered
RegisterOnabort(registered, d) == d

\* a variant of lines 112-120 that starts no transfer for an aborted signal
StartTransferUnlessAborted(d) ==
    /\ pc[d] = "import"
    /\ ~aborted[fetchRequest[d].signal]
    /\ onabort' = [onabort EXCEPT ![fetchRequest[d].signal] = RegisterOnabort(@, d)]
    /\ engineUse' = [engineUse EXCEPT ![d] = @ \cup {"request"}]
    /\ transfer' = [transfer EXCEPT ![d] = "connecting"]
    /\ pc' = [pc EXCEPT ![d] = "curly"]
    /\ lastOp' = [op |-> "register", d |-> d]
    /\ UNCHANGED <<calls, fetchRequest, easyNativeBinding, curlyOptions, curlyResult, result,
                   constructed, listening, bodyError, aborted, paused>>

\* lines 112-120: the import resolved; the abort callback is registered and
\* curly is called
StartTransfer(d) ==
    /\ pc[d] = "import"
    /\ onabort' = [onabort EXCEPT ![fetchRequest[d].signal] = RegisterOnabort(@, d)]
    /\ engineUse' = [engineUse EXCEPT ![d] = @ \cup {"request"}]
    /\ transfer' = [transfer EXCEPT ![d] = "connecting"]
    /\ pc' = [pc EXCEPT ![d] = "curly"]
    /\ lastOp' = [op |-> "register", d |-> d]
    /\ UNCHANGED <<calls, fetchRequest, easyNativeBinding, curlyOptions, curlyResult, result,
                   constructed, listening, bodyError, aborted, paused>>

\* lines 88-93, run by the transport while the transfer is in flight. A
\* non-zero return makes the transport end the transfer with
\* CURLE_ABORTED_BY_CALLBACK: before the headers that rejects curly's
\* promise, after them it is the body stream that errors.
Progress(d, this) ==
    /\ transfer[d] \in InFlight
    /\ easyNativeBinding' =
           [easyNativeBinding EXCEPT ![d] = CaptureHandle(@, this)]
    /\ engineUse' = [engineUse EXCEPT ![d] = @ \cup {"progress"}]
    /\ lastOp' = [op |-> "progress", d |-> d, this |-> this,
                  ret |-> ProgressReturn(aborted[fetchRequest[d].signal])]
    /\ IF ProgressReturn(aborted[fetchRequest[d].signal]) # 0
       THEN IF transfer[d] = "connecting"
            THEN /\ transfer' = [transfer EXCEPT ![d] = "aborted"]
                 /\ curlyResult' = [curlyResult EXCEPT
                        ![d] = [kind |-> "rejected", error |-> AbortedByCallback]]
            ELSE /\ transfer' = [transfer EXCEPT ![d] = "aborting"]
                 /\ UNCHANGED curlyResult
       ELSE UNCHANGED <<transfer, curlyResult>>
    /\ UNCHANGED <<calls, pc, fetchRequest, curlyOptions, result, constructed, listening,
                   bodyError, aborted, onabort, paused>>

StatusCodes == {200, 302}

\* the transport has the response's headers: curly's promise resolves,
\* with header blocks of `answers`
CurlyResolves(d, answers) ==
    /\ transfer[d] = "connecting"
    /\ transfer' = [transfer EXCEPT ![d] = "streaming"]
    /\ \E headers \in answers, statusCode \in StatusCodes :
           curlyResult' = [curlyResult EXCEPT
               ![d] = [kind |-> "resolved", headers |-> headers,
                       statusCode |-> statusCode]]
    /\ lastOp' = NoOp
    /\ UNCHANGED <<calls, pc, fetchRequest, easyNativeBinding, curlyOptions, result,
                   constructed, listening, bodyError, engineUse, aborted, onabort,
                   paused>>

\* the transfer fails before any headers: curly's promise rejects
CurlyRejects(d, error) ==
    /\ transfer[d] = "connecting"
    /\ transfer' = [transfer EXCEPT ![d] = "errored"]
    /\ curlyResult' = [curlyResult EXCEPT ![d] = [kind |-> "rejected", error |-> error]]
    /\ lastOp' = NoOp
    /\ UNCHANGED <<calls, pc, fetchRequest, easyNativeBinding, curlyOptions, result,
                   constructed, listening, bodyError, engineUse, aborted, onabort,
                   paused>>

\* lines 120-145: fetchPonyfill resumes after `await curly(...)`
Resume(d) ==
    /\ pc[d] = "curly"
    /\ curlyResult[d].kind # "pending"
    /\ pc' = [pc EXCEPT ![d] = "done"]
    /\ IF curlyResult[d].kind = "rejected"
       THEN /\ result' = [result EXCEPT ![d] = Failure("curly")]
            /\ UNCHANGED <<constructed, listening>>
       ELSE /\ result' = [result EXCEPT
                   ![d] = AfterCurly(fetchRequest[d], curlyResult[d]).result]
            /\ constructed' = [constructed EXCEPT
                   ![d] = @ + AfterCurly(fetchRequest[d], curlyResult[d]).constructed]
            /\ listening' = [listening EXCEPT
                   ![d] = AfterCurly(fetchRequest[d], curlyResult[d]).listening]
    /\ lastOp' = NoOp
    /\ UNCHANGED <<calls, fetchRequest, easyNativeBinding, curlyOptions, curlyResult,
                   bodyError, engineUse, transfer, aborted, onabort, paused>>

\* the body stream ends
StreamEnds(d) ==
    /\ transfer[d] = "streaming"
    /\ transfer' = [transfer EXCEPT ![d] = "ended"]
    /\ lastOp' = NoOp
    /\ UNCHANGED <<calls, pc, fetchRequest, easyNativeBinding, curlyOptions, curlyResult,
                   result, constructed, listening, bodyError, engineUse, aborted,
                   onabort, paused>>

\* errors a body stream may emit while its transfer runs
StreamErrors ==
    {[isCurlError |-> TRUE, code |-> 28],
     [isCurlError |-> FALSE, code |-> CURLE_ABORTED_BY_CALLBACK],
     [isCurlError |-> FALSE, code |-> 0]}

\* lines 133-139: the body stream emits 'error' and the listener runs. A
\* transfer the progress callback ended emits CURLE_ABORTED_BY_CALLBACK.
StreamError(d, err) ==
    /\ listening[d]
    /\ \/ transfer[d] = "streaming" /\ err \in StreamErrors
          /\ transfer' = [transfer EXCEPT ![d] = "errored"]
       \/ transfer[d] = "aborting" /\ err = AbortedByCallback
          /\ transfer' = [transfer EXCEPT ![d] = "aborted"]
    /\ bodyError' = [bodyError EXCEPT ![d] = OnStreamError(err)]
    /\ lastOp' = [op |-> "error", d |-> d, err |-> err]
    /\ UNCHANGED <<calls, pc, fetchRequest, easyNativeBinding, curlyOptions, curlyResult,
                   result, constructed, listening, engineUse, aborted, onabort, paused>>

\* a variant of lines 114-118 without the test of line 115
PauseRequestsUnguarded(d) ==
    IF d # 0
    THEN {[handle |-> easyNativeBinding[d], during |-> transfer[d]]}
    ELSE {}

\* a variant of lines 114-118 in which the callbacks share one slot list
PauseRequestsOfAll(d) ==
    IF d # 0
    THEN {[handle |-> easyNativeBinding[e], during |-> transfer[e]] :
             e \in {e \in Dispatches : easyNativeBinding[e] # NoHandle}}
    ELSE {}

\* lines 114-118: what the abort callback of dispatch d asks the transport
PauseRequests(d) ==
    IF d # 0 /\ easyNativeBinding[d] # NoHandle
    THEN {[handle |-> easyNativeBinding[d], during |-> transfer[d]]}
    ELSE {}

\* the signal aborts: the flag is set for good and onabort runs, once
Abort(s) ==
    /\ ~aborted[s]
    /\ aborted' = [aborted EXCEPT ![s] = TRUE]
    /\ paused' = paused \cup PauseRequests(onabort[s])
    /\ lastOp' = [op |-> "abort", d |-> onabort[s], s |-> s,
                  ret |-> Cardinality(PauseRequests(onabort[s]))]
    /\ UNCHANGED <<dispatchVars, onabort>>

(***************************************************************************)
(* Inputs: what callers pass, and what the transport answers.              *)
(***************************************************************************)
Info(form, scheme, pathname, redirect, signal, headers, body) ==
    [form |-> form, url |-> [scheme |-> scheme, pathname |-> pathname],
     redirect |-> redirect, signal |-> signal, headers |-> headers, body |-> body,
     method |-> "GET"]

Redirects == {"follow", "manual", "error"}

\* sequences over S without repetition, of length at most n
InjSeqsUpTo(S, n) ==
    {q \in SeqsUpTo(S, n) : \A i, j \in 1..Len(q) : i # j => q[i] # q[j]}

\* a header block is an object: its keys differ, `result` (the status line)
\* comes first, and block b's values are told apart by b
OtherKeys == {"location", "Location", "x-a"}
Block(b, keys) == [i \in 1..(Len(keys) + 1) |->
                      IF i = 1 THEN <<"result", b>> ELSE <<keys[i - 1], b>>]
HeaderResults ==
    UNION {{[b \in 1..n |-> Block(b, ks[b])] :
               ks \in [1..n -> InjSeqsUpTo(OtherKeys, MaxKeys)]} : n \in 1..MaxBlocks}

CurlyErrors == {[isCurlError |-> TRUE, code |-> 7]}

\* the requests of the main specification
NetworkInfos ==
    {Info(form, scheme, <<>>, redirect, 1, <<>>, "null") :
        form \in {"request", "string"}, scheme \in {"http", ""},
        redirect \in Redirects}
LocalInfos ==
    {Info("request", "data", <<",", "t">>, "follow", 1, <<>>, "null"),
     Info("url", "data", <<"t", ",", "%">>, "follow", 1, <<>>, "null"),
     Info("request", "file", <<"t">>, "follow", 1, <<>>, "null"),
     Info("string", "file", <<"%", "2", "F">>, "follow", 1, <<>>, "null")}
Infos == NetworkInfos \cup LocalInfos

\* the header blocks of a response that followed no redirect
SingleBlockResults == {headers \in HeaderResults : Len(headers) = 1}

\* data: pathnames: a type descriptor, then up to MaxPayload characters
TypeDescriptors ==
    {<<>>, <<"t">>, BASE64_SUFFIX, <<"t">> \o BASE64_SUFFIX, <<"t">> \o DropLast(BASE64_SUFFIX, 1)}
PayloadChars == {",", "t", "%", "4", "1"}
DataInfos ==
    {Info("request", "data", type \o rest, "follow", 1, <<>>, "null") :
        type \in TypeDescriptors, rest \in SeqsUpTo(PayloadChars, MaxPayload)}

\* request headers: up to two headers with different names, the values up
\* to MaxValueLen characters
RequestHeaderNames == {"content-length", "Content-Length", "accept"}
ValueChars == {"0", "1", "x"}
RequestHeaders ==
    {[i \in 1..Len(names) |-> <<names[i], values[i]>>] :
        names \in InjSeqsUpTo(RequestHeaderNames, 2),
        values \in [1..2 -> SeqsUpTo(ValueChars, MaxValueLen)]}
UploadInfos ==
    {Info("request", "http", <<>>, "follow", 1, headers, body) :
        headers \in RequestHeaders, body \in {"null", "stream", "iterable"}}

(***************************************************************************)
(* Spec: one dispatch, with its signal and its transport, in every        *)
(* interleaving of the caller, the signal and the transport.               *)
(***************************************************************************)
Next ==
    \/ Fetch(1, Infos)
    \/ ImportFails(1)
    \/ StartTransfer(1)
    \/ \E this \in Handles(1) : Progress(1, this)
    \/ CurlyResolves(1, SingleBlockResults)
    \/ \E error \in CurlyErrors : CurlyRejects(1, error)
    \/ Resume(1)
    \/ StreamEnds(1)
    \/ \E err \in StreamErrors \cup {AbortedByCallback} : StreamError(1, err)
    \/ \E s \in Signals : Abort(s)

Spec == Init /\ [][Next]_vars

\* The continuation of an await runs once its promise has settled, and
\* libcurl keeps calling the progress function of a transfer in flight.
FairSpec ==
    /\ Spec
    /\ WF_vars(Resume(1))
    /\ WF_vars(\E this \in Handles(1) : Progress(1, this))

(***************************************************************************)
(* SpecHeaders: one network dispatch that is not cancelled, for every      *)
(* answer of the transport within the bounds.                              *)
(***************************************************************************)
NextHeaders ==
    \/ Fetch(1, NetworkInfos)
    \/ StartTransfer(1)
    \/ CurlyResolves(1, HeaderResults)
    \/ Resume(1)

SpecHeaders == Init /\ [][NextHeaders]_vars

(***************************************************************************)
(* SpecData: the dispatch of every data: URI within the bounds.            *)
(***************************************************************************)
NextData == Fetch(1, DataInfos)

SpecData == Init /\ [][NextData]_vars

(***************************************************************************)
(* SpecUpload: the options of a network dispatch, for every set of request *)
(* headers within the bounds.                                              *)
(***************************************************************************)
NextUpload == Fetch(1, UploadInfos)

SpecUpload == Init /\ [][NextUpload]_vars

(***************************************************************************)
(* SpecTwo: two network dispatches in flight together, each with its own   *)
(* signal or both with the same one, in every interleaving.                *)
(***************************************************************************)
\* dispatch 1 is given signal 1, dispatch 2 either signal
TwoInfos(d) ==
    {Info("request", "http", <<>>, "follow", signal, <<>>, "null") :
        signal \in (IF d = 1 THEN {1} ELSE Signals)}
TwoResults == {<<Block(1, <<"x-a">>)>>}

NextTwo ==
    \/ \E d \in Dispatches : Fetch(d, TwoInfos(d))
    \/ \E d \in Dispatches : StartTransfer(d)
    \/ \E d \in Dispatches : \E this \in Handles(d) : Progress(d, this)
    \/ \E d \in Dispatches : CurlyResolves(d, TwoResults)
    \/ \E d \in Dispatches : Resume(d)
    \/ \E d \in Dispatches : StreamEnds(d)
    \/ \E d \in Dispatches : StreamError(d, AbortedByCallback)
    \/ \E s \in Signals : Abort(s)

SpecTwo == Init /\ [][NextTwo]_vars

(***************************************************************************)
(* Properties.                                                             *)
(***************************************************************************)
\* the dispatches that went to the network transport
IsNetwork(d) == pc[d] # "idle" /\ Protocol(fetchRequest[d].url) \notin {"data:", "file:"}

\* the key/value pairs of all blocks, and those not under the `result` key
RECURSIVE AllPairs(_)
AllPairs(blocks) ==
    IF Len(blocks) = 0 THEN <<>>
    ELSE AllPairs(SubSeq(blocks, 1, Len(blocks) - 1)) \o blocks[Len(blocks)]
IsForwarded(pair) == pair[1] # "result"
Forwarded(blocks) == SelectSeq(AllPairs(blocks), IsForwarded)
HasLocation(blocks) ==
    \E i \in 1..Len(AllPairs(blocks)) : AllPairs(blocks)[i][1] \in {"location", "Location"}

\* C1: a network dispatch with redirect mode 'error' whose transport returned
\* a `location` or `Location` key in any header block rejects, and constructs
\* no Response at any time.
C1_RedirectErrorRejects ==
    \A d \in Dispatches :
        (/\ IsNetwork(d)
         /\ fetchRequest[d].redirect = "error"
         /\ curlyResult[d].kind = "resolved"
         /\ HasLocation(curlyResult[d].headers))
        => /\ constructed[d] = 0
           /\ result[d].kind # "response"
           /\ pc[d] = "done" => result[d].kind = "failure"

C1_Witness ==
    /\ pc[1] = "done"
    /\ fetchRequest[1].redirect = "error"
    /\ curlyResult[1].kind = "resolved"
    /\ Len(curlyResult[1].headers) = 2
    /\ curlyResult[1].headers[2] = <<<<"result", 2>>, <<"Location", 2>>>>
    /\ ~HasLocation(<<curlyResult[1].headers[1]>>)
    /\ result[1].kind = "failure"

\* C2: a network dispatch with redirect mode 'follow' resolves, whatever
\* header blocks the transport returned, to a Response whose headers are
\* every returned key/value but those under `result`.
C2_FollowForwardsEveryHeader ==
    \A d \in Dispatches :
        (/\ IsNetwork(d)
         /\ fetchRequest[d].redirect = "follow"
         /\ curlyResult[d].kind = "resolved"
         /\ pc[d] = "done")
        => /\ result[d].kind = "response"
           /\ result[d].headers = Forwarded(curlyResult[d].headers)

\* C3: once the signal is aborted every progress tick returns the abort
\* instruction, with or without a captured handle and whether or not the
\* abort callback ran; and while ticks keep coming, an aborted transfer in
\* flight is ended by the transport.
C3_TickAfterAbort ==
    (lastOp.op = "progress" /\ aborted[fetchRequest[lastOp.d].signal])
        => lastOp.ret # 0

C3_AbortEndsTransfer ==
    /\ []C3_TickAfterAbort
    /\ \A d \in Dispatches :
           (transfer[d] \in InFlight /\ aborted[fetchRequest[d].signal])
               ~> (transfer[d] \notin InFlight)

\* no pause was ever requested of the transport, and the tick alone made it
\* end the transfer
C3_Witness ==
    /\ lastOp.op = "progress"
    /\ lastOp.ret # 0
    /\ paused = {}
    /\ onabort[fetchRequest[1].signal] = 1
    /\ transfer[1] = "aborting"

\* C4: a body-stream error that is the transport's abort-by-callback error
\* is suppressed by the listener: nothing is rethrown.
C4_AbortErrorSuppressed ==
    \A d \in Dispatches :
        (lastOp.op = "error" /\ lastOp.d = d /\ lastOp.err = AbortedByCallback)
            => bodyError[d].kind = "suppressed"

C4_Witness ==
    /\ lastOp.op = "error"
    /\ lastOp.err = AbortedByCallback
    /\ aborted[fetchRequest[1].signal]
    /\ bodyError[1].kind = "suppressed"
    /\ result[1].kind = "response"

\* C5: any other body-stream error is rethrown as it is, and the Response
\* the dispatch resolved to stays the dispatch's result.
C5_OtherErrorsPropagate ==
    \A d \in Dispatches :
        (lastOp.op = "error" /\ lastOp.d = d /\ lastOp.err # AbortedByCallback)
            => /\ bodyError[d] = [kind |-> "thrown", err |-> lastOp.err]
               /\ result[d].kind = "response"
               /\ constructed[d] = 1

\* the signal was aborted, and the stream failed with another error
C5_Witness ==
    /\ lastOp.op = "error"
    /\ lastOp.err = [isCurlError |-> FALSE, code |-> CURLE_ABORTED_BY_CALLBACK]
    /\ aborted[fetchRequest[1].signal]
    /\ bodyError[1].kind = "thrown"
    /\ result[1].kind = "response"

\* C6: a dispatch has one result: no Response exists while it is pending or
\* when it failed, exactly one when it resolved; and once curly's promise
\* has settled the dispatch settles.
C6_OneResult ==
    \A d \in Dispatches :
        /\ result[d].kind \in {"pending", "response", "failure"}
        /\ constructed[d] = Responses(result[d])
        /\ result[d].kind # "pending" <=> pc[d] = "done"

C6_ExactlyOneResult ==
    /\ []C6_OneResult
    /\ [][\A d \in Dispatches : result[d].kind # "pending" => result'[d] = result[d]]_vars
    /\ \A d \in Dispatches :
           (curlyResult[d].kind # "pending") ~> (result[d].kind # "pending")

\* the transport answered, and the dispatch failed on a forbidden redirect
C6_Witness ==
    /\ curlyResult[1].kind = "resolved"
    /\ result[1] = Failure("redirects are not allowed")
    /\ constructed[1] = 0

\* C7: a network Response exists only once curly's promise has resolved and
\* every header block was processed, and its headers never change afterwards.
C7_HeadersComplete ==
    \A d \in Dispatches :
        (IsNetwork(d) /\ result[d].kind = "response")
            => /\ curlyResult[d].kind = "resolved"
               /\ result[d].headers = Forwarded(curlyResult[d].headers)

C7_ResponseAfterHeaders ==
    /\ []C7_HeadersComplete
    /\ [][\A d \in Dispatches :
              result[d].kind = "response" => result'[d] = result[d]]_vars

C7_Witness ==
    /\ result[1].kind = "response"
    /\ Len(curlyResult[1].headers) = 2
    /\ Len(result[1].headers) = 2
    /\ result[1].headers[2] = <<"x-a", 2>>

\* the value of the last header named exactly `content-length`
HasContentLength(headers) == \E i \in 1..Len(headers) : headers[i][1] = "content-length"
ContentLength(headers) ==
    headers[CHOOSE i \in 1..Len(headers) :
                /\ headers[i][1] = "content-length"
                /\ \A j \in (i + 1)..Len(headers) : headers[j][1] # "content-length"][2]

\* the number a run of decimal digits spells
RECURSIVE Pow10(_)
Pow10(n) == IF n = 0 THEN 1 ELSE 10 * Pow10(n - 1)
RECURSIVE DigitsValue(_)
DigitsValue(s) ==
    IF Len(s) = 0 THEN 0
    ELSE DigitVal(Head(s)) * Pow10(Len(s) - 1) + DigitsValue(Tail(s))
IsNumeral(s) == Len(s) > 0 /\ \A i \in 1..Len(s) : s[i] \in Digits

Descriptor(pathname) == SubSeq(pathname, 1, FirstComma(pathname) - 1)
Payload(pathname) == SubSeq(pathname, FirstComma(pathname) + 1, Len(pathname))
WellFormedData(pathname) == FirstComma(pathname) # 0 /\ ~Malformed(Payload(pathname))

\* C9: a well-formed data: URI whose type descriptor does not end in
\* `;base64` resolves to status 200, its content-type the descriptor, or
\* text/plain when the descriptor is empty, and its body the percent-decoded
\* text after the first comma.
C9_DataUriText ==
    \A d \in Dispatches :
        (/\ pc[d] = "done"
         /\ Protocol(fetchRequest[d].url) = "data:"
         /\ WellFormedData(fetchRequest[d].url.pathname)
         /\ ~EndsWith(Descriptor(fetchRequest[d].url.pathname), BASE64_SUFFIX))
        => /\ result[d].kind = "response"
           /\ result[d].status = 200
           /\ result[d].headers =
                  <<<<"content-type",
                      IF Descriptor(fetchRequest[d].url.pathname) = <<>>
                      THEN TextPlain
                      ELSE Descriptor(fetchRequest[d].url.pathname)>>>>
           /\ result[d].body =
                  [kind |-> "text",
                   text |-> DecodeURIComponent(Payload(fetchRequest[d].url.pathname))]

\* C10: a data: or file: dispatch asks nothing of the transport engine, and
\* a dispatch of any other scheme imports it, and resolves to a Response
\* only through a request to it.
C10_TransportByScheme ==
    \A d \in Dispatches :
        pc[d] # "idle"
        => IF Protocol(fetchRequest[d].url) \in {"data:", "file:"}
           THEN /\ engineUse[d] = {}
                /\ transfer[d] = "none"
                /\ curlyOptions[d] = NoOptions
                /\ pc[d] = "done"
           ELSE /\ "import" \in engineUse[d]
                /\ curlyOptions[d] # NoOptions
                /\ result[d].kind = "response" => "request" \in engineUse[d]

C10_Witness ==
    /\ pc[1] = "done"
    /\ Protocol(fetchRequest[1].url) = "file:"
    /\ result[1].kind = "response"
    /\ engineUse[1] = {}
    /\ aborted[1]

\* C11: a string or URL input constructs exactly one Request and enters
\* fetchPonyfill exactly once more; a Request input constructs none and is
\* dispatched in the one entry; either way the dispatch runs on a Request.
C11_NormalizedOnce ==
    \A d \in Dispatches :
        pc[d] # "idle" =>
            /\ fetchRequest[d].form = "request"
            /\ calls[d].form \in {"string", "url"}
                   => (calls[d].requests = 1 /\ calls[d].entries = 2)
            /\ calls[d].form = "request"
                   => (calls[d].requests = 0 /\ calls[d].entries = 1)

\* a URL object was normalized and its dispatch settled
C11_Witness ==
    /\ pc[1] = "done"
    /\ calls[1] = [form |-> "url", entries |-> 2, requests |-> 1]
    /\ fetchRequest[1].form = "request"

\* C12: the redirect-forbidden failure is raised only in redirect mode
\* 'error': in mode 'follow' or 'manual' no dispatch fails with it, and one
\* whose transport resolved gives a Response that carries every key but
\* `result`, a `location` or `Location` key included, under its own casing.
C12_RedirectFailureOnlyInErrorMode ==
    \A d \in Dispatches :
        (IsNetwork(d) /\ fetchRequest[d].redirect \in {"follow", "manual"})
        => /\ result[d] # Failure("redirects are not allowed")
           /\ (curlyResult[d].kind = "resolved" /\ pc[d] = "done")
                  => /\ result[d].kind = "response"
                     /\ result[d].headers = Forwarded(curlyResult[d].headers)

\* what C13 says of one step, for the slot of each dispatch
C13_SlotStep ==
    \A d \in Dispatches :
        /\ easyNativeBinding[d] # NoHandle
               => easyNativeBinding'[d] = easyNativeBinding[d]
        /\ (easyNativeBinding[d] = NoHandle /\ easyNativeBinding'[d] # NoHandle)
               => (lastOp'.op = "progress" /\ lastOp'.d = d)
        /\ (easyNativeBinding[d] = NoHandle /\ lastOp'.op = "progress" /\ lastOp'.d = d)
               => easyNativeBinding'[d] = lastOp'.this

\* C13: the handle slot of a dispatch is written at most once: it is empty
\* until the first progress tick, takes the handle that tick was called on,
\* and no later tick, abort callback or other step changes or clears it.
C13_HandleWrittenOnce == [][C13_SlotStep]_vars

\* a later tick was called on another handle and the slot kept the first
C13_Witness ==
    /\ lastOp.op = "progress"
    /\ lastOp.d = 1
    /\ easyNativeBinding[1] # NoHandle
    /\ lastOp.this # easyNativeBinding[1]

\* what C14 says of the step in which signal s aborts
C14_AbortStep(s) ==
    LET d == onabort[s]
        captured == d # 0 /\ easyNativeBinding[d] # NoHandle
    IN  /\ UNCHANGED dispatchVars
        /\ captured
               => paused' = paused \cup {[handle |-> easyNativeBinding[d],
                                          during |-> transfer[d]]}
        /\ ~captured => paused' = paused
        /\ lastOp'.ret = (IF captured THEN 1 ELSE 0)

\* C14: the abort callback asks the transport to pause receiving on the
\* captured handle exactly when a handle has been captured; when the signal
\* aborts before any tick captured one, the callback asks nothing of the
\* transport and changes no state of the dispatch.
C14_PauseIffCaptured ==
    [][\A s \in Signals : (~aborted[s] /\ aborted'[s]) => C14_AbortStep(s)]_vars

\* the callback ran while curly was connecting and no tick had come yet
C14_Witness ==
    /\ lastOp.op = "abort"
    /\ lastOp.d = 1
    /\ lastOp.ret = 0
    /\ transfer[1] = "connecting"
    /\ easyNativeBinding[1] = NoHandle
    /\ paused = {}

\* the transfer of a dispatch completed or failed
Finished == {"ended", "errored", "aborted"}

\* C15: the captured handle is used only while its transfer is in flight:
\* once the transfer completed or failed the slot is empty again, and no
\* pause is ever asked of the handle of a finished transfer.
C15_HandleOnlyInFlight ==
    /\ \A d \in Dispatches :
           transfer[d] \in Finished => easyNativeBinding[d] = NoHandle
    /\ \A p \in paused : p.during \notin Finished

\* dispatches d and e are both under way, each with a signal of its own
DistinctSignals(d, e) ==
    /\ d # e
    /\ pc[d] # "idle"
    /\ pc[e] # "idle"
    /\ fetchRequest[d].signal # fetchRequest[e].signal

\* what C16 says of one step: only a tick of e writes the slot of e, nothing
\* rewrites its options, and the abort of d's signal asks no pause of a
\* handle of e and leaves the transfer of e as it is
C16_Step ==
    \A d, e \in Dispatches :
        DistinctSignals(d, e) =>
            /\ easyNativeBinding'[e] # easyNativeBinding[e]
                   => /\ lastOp'.op = "progress"
                      /\ lastOp'.d = e
                      /\ easyNativeBinding'[e] \in Handles(e)
            /\ curlyOptions'[e] = curlyOptions[e]
            /\ (~aborted[fetchRequest[d].signal] /\ aborted'[fetchRequest[d].signal])
                   => /\ \A p \in paused' \ paused : p.handle \notin Handles(e)
                      /\ transfer'[e] = transfer[e]

\* a tick of e continues while only the signal of d is aborted
C16_TickOfOther ==
    \A d, e \in Dispatches :
        (/\ DistinctSignals(d, e)
         /\ lastOp.op = "progress"
         /\ lastOp.d = e
         /\ ~aborted[fetchRequest[e].signal])
        => lastOp.ret = 0

\* C16: of two network dispatches in flight together with distinct signals,
\* each reads and writes only its own handle slot and options, and aborting
\* the signal of one neither pauses a handle of the other nor makes a tick
\* of the other return the abort indication.
C16_DispatchesIndependent == [][C16_Step]_vars /\ []C16_TickOfOther

\* both captured a handle, the signal of dispatch 1 aborted and paused its
\* handle alone, and dispatch 2 ticked on
C16_Witness ==
    /\ DistinctSignals(1, 2)
    /\ aborted[fetchRequest[1].signal]
    /\ ~aborted[fetchRequest[2].signal]
    /\ easyNativeBinding[2] # NoHandle
    /\ paused # {}
    /\ \A p \in paused : p.handle = easyNativeBinding[1]
    /\ lastOp.op = "progress"
    /\ lastOp.d = 2
    /\ lastOp.ret = 0
    /\ transfer[2] = "streaming"

\* dispatches d and e are both registered on one and the same signal
SharedSignal(d, e) ==
    /\ d # e
    /\ pc[d] \notin {"idle", "import"}
    /\ pc[e] \notin {"idle", "import"}
    /\ fetchRequest[d].signal = fetchRequest[e].signal

\* what C17 says of one step: a registration takes the slot of its signal
\* whoever held it, nothing else changes the slot, and an abort asks a
\* pause of no handle but the one of the dispatch then in the slot
C17_Step ==
    /\ \A d \in Dispatches :
           (pc[d] = "import" /\ pc'[d] = "curly")
               => onabort'[fetchRequest[d].signal] = d
    /\ \A s \in Signals :
           onabort'[s] # onabort[s]
               => (pc[onabort'[s]] = "import" /\ pc'[onabort'[s]] = "curly")
    /\ \A d, e \in Dispatches :
           (/\ SharedSignal(d, e)
            /\ onabort[fetchRequest[d].signal] = d
            /\ ~aborted[fetchRequest[d].signal]
            /\ aborted'[fetchRequest[d].signal])
           => /\ \A p \in paused' \ paused : p.handle \notin Handles(e)
              /\ easyNativeBinding[d] # NoHandle
                     => \E p \in paused' : p.handle = easyNativeBinding[d]

\* once the shared signal is aborted the ticks of both return the abort
C17_TicksOfBoth ==
    \A d, e \in Dispatches :
        (/\ SharedSignal(d, e)
         /\ aborted[fetchRequest[d].signal]
         /\ lastOp.op = "progress")
        => lastOp.ret # 0

\* C17: of two dispatches in flight on one signal the later registration
\* takes the signal's single callback slot from the earlier one, so that
\* on abort only the handle captured by the later dispatch is asked to
\* pause, while the ticks of both return the abort indication.
C17_LaterRegistrationWins == [][C17_Step]_vars /\ []C17_TicksOfBoth

\* dispatch 2 registered last; both captured a handle; the abort paused the
\* handle of dispatch 2 alone, and a tick of dispatch 1 returned the abort
C17_Witness ==
    /\ SharedSignal(1, 2)
    /\ onabort[fetchRequest[1].signal] = 2
    /\ easyNativeBinding[1] # NoHandle
    /\ paused # {}
    /\ \A p \in paused : p.handle = easyNativeBinding[2]
    /\ lastOp.op = "progress"
    /\ lastOp.d = 1
    /\ lastOp.ret # 0

\* what C18 says of one step: while a dispatch has not registered, an abort
\* runs no callback of it; the callback of a signal that is aborted never
\* runs afterwards; and the step that ends the import of a dispatch whose
\* signal is aborted registers the callback and starts the request
C18_Step ==
    /\ \A d \in Dispatches, s \in Signals :
           (pc[d] \in {"idle", "import"} /\ ~aborted[s] /\ aborted'[s])
               => /\ lastOp'.d # d
                  /\ \A p \in paused' \ paused : p.handle \notin Handles(d)
    /\ \A s \in Signals :
           aborted[s]
               => /\ aborted'[s]
                  /\ ~(lastOp' # lastOp /\ lastOp'.op = "abort" /\ lastOp'.s = s)
    /\ \A d \in Dispatches :
           (/\ pc[d] = "import"
            /\ aborted[fetchRequest[d].signal]
            /\ pc'[d] = "curly")
           => /\ onabort'[fetchRequest[d].signal] = d
              /\ transfer'[d] = "connecting"
              /\ "request" \in engineUse'[d]
              /\ paused' = paused

\* a dispatch waiting for the import can go on whatever its signal says,
\* and a tick under an aborted signal returns the abort, the first included
C18_StartsAnyway ==
    /\ \A d \in Dispatches : pc[d] = "import" => ENABLED StartTransfer(d)
    /\ (lastOp.op = "progress" /\ aborted[fetchRequest[lastOp.d].signal])
           => lastOp.ret = 1

\* C18: a network dispatch does not look at the signal before it starts and
\* registers its abort callback only after the import: when the signal is
\* aborted already at the call, or aborts before the registration, the
\* callback never runs for that dispatch, the request is started all the
\* same, and the first progress tick returns the abort indication.
C18_AbortBeforeRegistration == [][C18_Step]_vars /\ []C18_StartsAnyway

\* the callback was registered on a signal already aborted, and the
\* request started
C18_Witness ==
    /\ lastOp = [op |-> "register", d |-> 1]
    /\ aborted[fetchRequest[1].signal]
    /\ onabort[fetchRequest[1].signal] = 1
    /\ transfer[1] = "connecting"
    /\ "request" \in engineUse[1]
    /\ paused = {}

\* C19: a progress tick returns the abort indication only if the signal of
\* its dispatch is aborted at that tick: while it is not, every tick
\* returns 0, and no transfer is being ended, or was ended, by a tick.
C19_AbortOnlyIfAborted ==
    /\ lastOp.op = "progress"
           => /\ lastOp.ret \in {0, 1}
              /\ lastOp.ret # 0 => aborted[fetchRequest[lastOp.d].signal]
    /\ \A d \in Dispatches :
           transfer[d] \in {"aborting", "aborted"}
               => aborted[fetchRequest[d].signal]

\* a tick after the first went on, with only the other signal aborted
C19_Witness ==
    /\ lastOp.op = "progress"
    /\ lastOp.d = 1
    /\ lastOp.ret = 0
    /\ lastOp.this # easyNativeBinding[1]
    /\ ~aborted[fetchRequest[1].signal]
    /\ \E s \in Signals : aborted[s]
    /\ transfer[1] = "streaming"

\* dispatch d is of a data: or file: URL
IsLocal(d) == pc[d] # "idle" /\ Protocol(fetchRequest[d].url) \in {"data:", "file:"}

\* a data: URI with a comma and a decodable payload, a file: URL without
\* percent-encoding
WellFormedLocal(url) ==
    IF Protocol(url) = "data:"
    THEN WellFormedData(url.pathname)
    ELSE \A i \in 1..Len(url.pathname) : url.pathname[i] # "%"

\* what C20 says of the step that dispatches a data: or file: URL
C20_Step ==
    \A d \in Dispatches :
        (pc[d] = "idle" /\ pc'[d] = "done")
            => /\ UNCHANGED <<aborted, onabort, paused>>
               /\ WellFormedLocal(fetchRequest'[d].url)
                      => result'[d].kind = "response"

\* C20: a data: or file: dispatch leaves the signal as it is and ignores
\* it: it settles in the step of the call, never registers or replaces the
\* signal's abort callback, and for a well-formed URL resolves to a
\* Response also when the signal is aborted at the time of the call.
C20_LocalIgnoresSignal ==
    /\ [][C20_Step]_vars
    /\ [](\A d \in Dispatches :
             IsLocal(d) => /\ pc[d] = "done"
                           /\ onabort[fetchRequest[d].signal] # d
                           /\ engineUse[d] = {}
                           /\ WellFormedLocal(fetchRequest[d].url)
                                  => result[d].kind = "response")

\* a data: URI was dispatched after its signal had aborted, and resolved
C20_Witness ==
    /\ IsLocal(1)
    /\ Protocol(fetchRequest[1].url) = "data:"
    /\ aborted[fetchRequest[1].signal]
    /\ lastOp = NoOp
    /\ onabort[fetchRequest[1].signal] = 0
    /\ result[1].kind = "response"
====
